---- MODULE Spec2Model ----
(***************************************************************************)
(* A model of the cookie value and its text codec (src/lib.rs):            *)
(* Cookie::new, Cookie::parse, Cookie::pair and the two fmt::Show          *)
(* implementations.  Texts are TLA+ strings handled character by           *)
(* character (Len, SubSeq, \o); Option<T> is <<>> for None and <<v>> for   *)
(* Some(v); the TreeMap is a function whose domain is the set of keys,     *)
(* iterated in ascending byte order.                                       *)
(***************************************************************************)
EXTENDS Integers, Sequences, FiniteSets, TLC

VARIABLES orig, nassign, text, nattrs, pc, pairs, c, result, out

vars == <<orig, nassign, text, nattrs, pc, pairs, c, result, out>>

(***************************************************************************)
(* Characters and strings                                                  *)
(***************************************************************************)

\* The printable ASCII characters in code order, 0x20 .. 0x7E.  The grave
\* accent (0x60) cannot be written in a TLA+ string: its place is held by a
\* second "_" and no text of the model contains it.
Ascii == " !\"#$%&'()*+,-./0123456789:;<=>?@ABCDEFGHIJKLMNOPQRSTUVWXYZ[\\]^__abcdefghijklmnopqrstuvwxyz{|}~"

Ch(s, i) == SubSeq(s, i, i)

RECURSIVE FindFrom(_, _, _)
FindFrom(s, ch, i) ==
    IF i > Len(s) THEN 0 ELSE IF Ch(s, i) = ch THEN i ELSE FindFrom(s, ch, i + 1)

\* Index of the first occurrence of the character ch in s, 0 if there is none.
Find(s, ch) == FindFrom(s, ch, 1)

\* The byte value of a printable ASCII character.
Code(ch) == 31 + Find(Ascii, ch)

\* The printable ASCII character of a byte value in 32 .. 126.
Chr(n) == Ch(Ascii, n - 31)

None == <<>>

Some(v) == <<v>>

\* char::to_ascii_lower: 'A'..'Z' map to 'a'..'z', every other character to itself.
LowerCh(ch) ==
    LET n == Find("ABCDEFGHIJKLMNOPQRSTUVWXYZ", ch)
    IN  IF n > 0 THEN Ch("abcdefghijklmnopqrstuvwxyz", n) ELSE ch

RECURSIVE LowerFrom(_, _)
LowerFrom(s, i) ==
    IF i > Len(s) THEN "" ELSE LowerCh(Ch(s, i)) \o LowerFrom(s, i + 1)

\* str::to_ascii_lower
to_ascii_lower(s) == LowerFrom(s, 1)

\* The white space str::trim removes; the texts of the model hold spaces only.
IsWs(ch) == ch = " "

RECURSIVE TrimLeft(_)
TrimLeft(s) ==
    IF s # "" /\ IsWs(Ch(s, 1)) THEN TrimLeft(Tail(s)) ELSE s

RECURSIVE TrimRight(_)
TrimRight(s) ==
    IF s # "" /\ IsWs(Ch(s, Len(s))) THEN TrimRight(SubSeq(s, 1, Len(s) - 1)) ELSE s

\* str::trim
trim(s) == TrimRight(TrimLeft(s))

\* str::split(';'): the pieces between the separators, always at least one.
RECURSIVE SplitOn(_, _)
SplitOn(s, ch) ==
    LET i == Find(s, ch)
    IN  IF i = 0 THEN <<s>>
        ELSE <<SubSeq(s, 1, i - 1)>> \o SplitOn(SubSeq(s, i + 1, Len(s)), ch)

\* The nested fn split: s.trim().splitn(1, '='), both parts required.
\* None stands for Err(()), Some(<<k, v>>) for Ok((k, v)).
split(s) ==
    LET t == trim(s)
        i == Find(t, "=")
    IN  IF i = 0 THEN None
        ELSE Some(<<SubSeq(t, 1, i - 1), SubSeq(t, i + 1, Len(t))>>)

\* Byte-wise order of strings, the Ord of String that the TreeMap uses.
RECURSIVE StrLess(_, _)
StrLess(a, b) ==
    IF b = "" THEN FALSE
    ELSE IF a = "" THEN TRUE
    ELSE IF Ch(a, 1) = Ch(b, 1) THEN StrLess(Tail(a), Tail(b))
    ELSE Code(Ch(a, 1)) < Code(Ch(b, 1))

(***************************************************************************)
(* Percent-encoding (the url crate, as called at lines 56-57 and 117-118)  *)
(***************************************************************************)

HexDigits == "0123456789ABCDEF"

\* from_hex: the value of a hexadecimal digit of either case, -1 if it is none.
from_hex(ch) ==
    IF Find(HexDigits, ch) > 0 THEN Find(HexDigits, ch) - 1
    ELSE IF Find("abcdef", ch) > 0 THEN Find("abcdef", ch) + 9
    ELSE -1

\* url::percent_decode: the bytes of s, each "%XY" with two hexadecimal
\* digits replaced by the byte 16*X + Y; any other '%' stays as it is.
RECURSIVE percent_decode(_)
percent_decode(s) ==
    IF s = "" THEN <<>>
    ELSE IF /\ Ch(s, 1) = "%" /\ Len(s) >= 3
            /\ from_hex(Ch(s, 2)) >= 0 /\ from_hex(Ch(s, 3)) >= 0
         THEN <<16 * from_hex(Ch(s, 2)) + from_hex(Ch(s, 3))>>
                  \o percent_decode(SubSeq(s, 4, Len(s)))
         ELSE <<Code(Ch(s, 1))>> \o percent_decode(Tail(s))

RECURSIVE BytesToStr(_)
BytesToStr(bytes) ==
    IF bytes = <<>> THEN "" ELSE Chr(Head(bytes)) \o BytesToStr(Tail(bytes))

\* String::from_utf8(..).map_err(|_| ()): the texts of the model decode to
\* printable ASCII or to the byte 0xFF, which no UTF-8 text contains.
from_utf8(bytes) ==
    IF \E i \in 1..Len(bytes) : bytes[i] >= 128 THEN None
    ELSE Some(BytesToStr(bytes))

\* url::DEFAULT_ENCODE_SET: the bytes outside 0x20..0x7E, and space, '"',
\* '#', '<', '>', '?', the grave accent, '{' and '}'.  Neither ';' nor '='
\* nor '%' is a member.
InEncodeSet(ch) == Find(" \"#<>?{}", ch) > 0

\* url::percent_encode(bytes, DEFAULT_ENCODE_SET)
RECURSIVE percent_encode(_)
percent_encode(s) ==
    IF s = "" THEN ""
    ELSE (IF InEncodeSet(Ch(s, 1))
          THEN "%" \o Ch(HexDigits, (Code(Ch(s, 1)) \div 16) + 1)
                   \o Ch(HexDigits, (Code(Ch(s, 1)) % 16) + 1)
          ELSE Ch(s, 1)) \o percent_encode(Tail(s))

(***************************************************************************)
(* Numbers                                                                 *)
(***************************************************************************)

IsDigit(ch) == Find("0123456789", ch) > 0

RECURSIVE DigitsValue(_, _)
DigitsValue(s, acc) ==
    IF s = "" THEN acc ELSE DigitsValue(Tail(s), 10 * acc + (Code(Ch(s, 1)) - 48))

\* from_str::<u64>: a non-empty run of decimal digits and nothing else.  The
\* numbers of the model have a few digits, far below 2^64.
from_str(v) ==
    IF v # "" /\ \A i \in 1..Len(v) : IsDigit(Ch(v, i))
    THEN Some(DigitsValue(v, 0))
    ELSE None

\* The {} rendering of an unsigned integer.
RECURSIVE ToDec(_)
ToDec(n) ==
    IF n < 10 THEN Chr(48 + n) ELSE ToDec(n \div 10) \o Chr(48 + (n % 10))

(***************************************************************************)
(* Timestamps (the time crate, as called at lines 83-90 and 140)           *)
(***************************************************************************)

DayNames == <<"Sun", "Mon", "Tue", "Wed", "Thu", "Fri", "Sat">>

FullDayNames ==
    <<"Sunday", "Monday", "Tuesday", "Wednesday", "Thursday", "Friday", "Saturday">>

MonthNames ==
    <<"Jan", "Feb", "Mar", "Apr", "May", "Jun", "Jul", "Aug", "Sep", "Oct", "Nov", "Dec">>

\* The Tm of time::strptime before any directive has been read.
EmptyTm ==
    [tm_sec |-> 0, tm_min |-> 0, tm_hour |-> 0, tm_mday |-> 0, tm_mon |-> 0,
     tm_year |-> 0, tm_wday |-> 0]

StartsWith(s, pos, w) == SubSeq(s, pos, pos + Len(w) - 1) = w

\* match_strs: the first name of the table found at pos, as <<index, next>>
\* with the index counted from 0; None if no name is there.
match_strs(s, pos, names) ==
    IF \E i \in 1..Len(names) : StartsWith(s, pos, names[i])
    THEN LET i == CHOOSE i \in 1..Len(names) :
                      /\ StartsWith(s, pos, names[i])
                      /\ \A j \in 1..(i - 1) : ~StartsWith(s, pos, names[j])
         IN  Some(<<i - 1, pos + Len(names[i])>>)
    ELSE None

\* match_digits_in_range: exactly n digits at pos whose value lies in lo..hi.
match_digits(s, pos, n, lo, hi) ==
    IF /\ pos + n - 1 <= Len(s)
       /\ \A i \in pos..(pos + n - 1) : IsDigit(Ch(s, i))
       /\ DigitsValue(SubSeq(s, pos, pos + n - 1), 0) >= lo
       /\ DigitsValue(SubSeq(s, pos, pos + n - 1), 0) <= hi
    THEN Some(<<DigitsValue(SubSeq(s, pos, pos + n - 1), 0), pos + n>>)
    ELSE None

\* The %Z directive: "UTC" or "GMT", or else any run of characters up to and
\* including the next space.
SkipZone(s, pos) ==
    IF StartsWith(s, pos, "UTC") \/ StartsWith(s, pos, "GMT") THEN pos + 3
    ELSE LET i == Find(SubSeq(s, pos, Len(s)), " ")
         IN  IF i = 0 THEN Len(s) + 1 ELSE pos + i

\* parse_type: one directive read at pos; <<tm, next>> or None.
parse_type(s, pos, d, tm) ==
    LET set(f, m, off) ==
            IF m = None THEN None
            ELSE Some(<<[tm EXCEPT ![f] = m[1][1] + off], m[1][2]>>)
    IN  CASE d = "a" -> set("tm_wday", match_strs(s, pos, DayNames), 0)
          [] d = "A" -> set("tm_wday", match_strs(s, pos, FullDayNames), 0)
          [] d = "b" -> set("tm_mon", match_strs(s, pos, MonthNames), 0)
          [] d = "d" -> set("tm_mday", match_digits(s, pos, 2, 1, 31), 0)
          [] d = "H" -> set("tm_hour", match_digits(s, pos, 2, 0, 23), 0)
          [] d = "M" -> set("tm_min", match_digits(s, pos, 2, 0, 59), 0)
          [] d = "S" -> set("tm_sec", match_digits(s, pos, 2, 0, 60), 0)
          [] d = "Y" -> set("tm_year", match_digits(s, pos, 4, 0, 9999), -1900)
          [] d = "y" -> set("tm_year", match_digits(s, pos, 2, 0, 99), 0)
          [] d = "Z" -> Some(<<tm, SkipZone(s, pos)>>)
          [] OTHER -> None

\* The loop of time::strptime: the format is read character by character
\* while input remains; the parse succeeds when both are used up together.
RECURSIVE StrptimeFrom(_, _, _, _, _)
StrptimeFrom(s, pos, fmt, fi, tm) ==
    IF pos > Len(s)
    THEN (IF fi > Len(fmt) THEN Some(tm) ELSE None)
    ELSE IF fi > Len(fmt) THEN None
    ELSE IF Ch(fmt, fi) = "%"
    THEN (IF fi + 1 > Len(fmt) THEN None
          ELSE LET r == parse_type(s, pos, Ch(fmt, fi + 1), tm)
               IN  IF r = None THEN None
                   ELSE StrptimeFrom(s, r[1][2], fmt, fi + 2, r[1][1]))
    ELSE IF Ch(fmt, fi) # Ch(s, pos) THEN None
    ELSE StrptimeFrom(s, pos + 1, fmt, fi + 1, tm)

\* time::strptime(v, format): Some(tm) for Ok(tm), None for Err(_).
strptime(s, fmt) == StrptimeFrom(s, 1, fmt, 1, EmptyTm)

\* The four formats of lines 83-88, in the order they are tried.
ExpiresFormats ==
    <<"%a, %d %b %Y %H:%M:%S %Z", "%A, %d-%b-%y %H:%M:%S %Z",
      "%a, %d-%b-%Y %H:%M:%S %Z", "%a %b %d %H:%M:%S %Y">>

\* The or_else chain of lines 83-90: the first format that parses v.
RECURSIVE TryFormats(_, _)
TryFormats(v, i) ==
    IF i > Len(ExpiresFormats) THEN None
    ELSE LET t == strptime(v, ExpiresFormats[i])
         IN  IF t # None THEN t ELSE TryFormats(v, i + 1)

ParseExpires(v) == TryFormats(v, 1)

Pad2(n) == IF n < 10 THEN "0" \o ToDec(n) ELSE ToDec(n)

\* Tm::rfc822 of a UTC timestamp: strftime("%a, %d %b %Y %T GMT").
rfc822(t) ==
    DayNames[t.tm_wday + 1] \o ", " \o Pad2(t.tm_mday) \o " "
        \o MonthNames[t.tm_mon + 1] \o " " \o ToDec(t.tm_year + 1900) \o " "
        \o Pad2(t.tm_hour) \o ":" \o Pad2(t.tm_min) \o ":" \o Pad2(t.tm_sec) \o " GMT"

(***************************************************************************)
(* The Cookie value                                                        *)
(***************************************************************************)

EmptyMap == [k \in {} |-> ""]

\* An insert that keeps the value of an existing key: the first occurrence
\* would win.
InsertKeepFirst(m, k, v) ==
    [x \in (DOMAIN m) \cup {k} |-> IF x \in DOMAIN m THEN m[x] ELSE v]

\* TreeMap::insert: the value of an existing key is replaced.
Insert(m, k, v) == [x \in (DOMAIN m) \cup {k} |-> IF x = k THEN v ELSE m[x]]

\* TreeMap::iter: the keys in ascending order.
RECURSIVE SortedKeys(_)
SortedKeys(ks) ==
    IF ks = {} THEN <<>>
    ELSE LET k == CHOOSE x \in ks : \A y \in ks \ {x} : StrLess(x, y)
         IN  <<k>> \o SortedKeys(ks \ {k})

\* A constructor that leaves the path unset.
CookieNewUnsetPath(name, value) ==
    [name |-> name, value |-> value, expires |-> None, max_age |-> None,
     domain |-> None, path |-> None, secure |-> FALSE, httponly |-> FALSE,
     custom |-> EmptyMap]

\* Cookie::new
CookieNew(name, value) ==
    [name |-> name, value |-> value, expires |-> None, max_age |-> None,
     domain |-> None, path |-> Some("/"), secure |-> FALSE, httponly |-> FALSE,
     custom |-> EmptyMap]

(***************************************************************************)
(* Formatting                                                              *)
(***************************************************************************)

\* impl fmt::Show for AttrVal: the attribute as it is, the value encoded.
AttrValFmt(attr, val) == attr \o "=" \o percent_encode(val)

\* Cookie::pair, rendered.
Pair(ck) == AttrValFmt(ck.name, ck.value)

RECURSIVE CustomWrites(_, _)
CustomWrites(m, keys) ==
    IF keys = <<>> THEN <<>>
    ELSE <<"; " \o AttrValFmt(Head(keys), m[Head(keys)])>> \o CustomWrites(m, Tail(keys))

\* A formatter that writes Secure before HttpOnly.
WritesSecureFirst(ck) ==
    <<AttrValFmt(ck.name, ck.value)>>
        \o (IF ck.secure THEN <<"; Secure">> ELSE <<>>)
        \o (IF ck.httponly THEN <<"; HttpOnly">> ELSE <<>>)
        \o (IF ck.path # None THEN <<"; Path=" \o ck.path[1]>> ELSE <<>>)
        \o (IF ck.domain # None THEN <<"; Domain=" \o ck.domain[1]>> ELSE <<>>)
        \o (IF ck.max_age # None THEN <<"; Max-Age=" \o ToDec(ck.max_age[1])>> ELSE <<>>)
        \o (IF ck.expires # None THEN <<"; Expires=" \o rfc822(ck.expires[1])>> ELSE <<>>)
        \o CustomWrites(ck.custom, SortedKeys(DOMAIN ck.custom))

\* impl fmt::Show for Cookie: the texts written to the formatter, in order.
Writes(ck) ==
    <<AttrValFmt(ck.name, ck.value)>>
        \o (IF ck.httponly THEN <<"; HttpOnly">> ELSE <<>>)
        \o (IF ck.secure THEN <<"; Secure">> ELSE <<>>)
        \o (IF ck.path # None THEN <<"; Path=" \o ck.path[1]>> ELSE <<>>)
        \o (IF ck.domain # None THEN <<"; Domain=" \o ck.domain[1]>> ELSE <<>>)
        \o (IF ck.max_age # None THEN <<"; Max-Age=" \o ToDec(ck.max_age[1])>> ELSE <<>>)
        \o (IF ck.expires # None THEN <<"; Expires=" \o rfc822(ck.expires[1])>> ELSE <<>>)
        \o CustomWrites(ck.custom, SortedKeys(DOMAIN ck.custom))

RECURSIVE Concat(_)
Concat(ws) == IF ws = <<>> THEN "" ELSE Head(ws) \o Concat(Tail(ws))

\* to_string of a Cookie
CookieFmt(ck) == Concat(Writes(ck))

(***************************************************************************)
(* Parsing                                                                 *)
(***************************************************************************)

\* Lines 52-59: the cookie with the decoded name and value of the first
\* segment, or None for Err(()).
ParseFirst(keyval) ==
    LET kv == split(keyval)
    IN  IF kv = None THEN None
        ELSE LET name == from_utf8(percent_decode(kv[1][1]))
                 value == from_utf8(percent_decode(kv[1][2]))
             IN  IF name = None \/ value = None THEN None
                 ELSE Some([CookieNew("", "") EXCEPT !.name = name[1], !.value = value[1]])

\* Lines 71-76: char_at(0) of an empty value is out of bounds and panics;
\* this operator is used on a non-empty value only.
DomainOf(v) == to_ascii_lower(IF Ch(v, 1) = "." THEN SubSeq(v, 2, Len(v)) ELSE v)

\* Lines 62-96, one turn of the loop: <<"ok", cookie>>, <<"err">> when the
\* function returns Err(()), <<"panic">> when the turn panics.
ParseAttr(ck, attr) ==
    LET trimmed == trim(attr)
        lower == to_ascii_lower(trimmed)
    IN  IF lower = "secure" THEN <<"ok", [ck EXCEPT !.secure = TRUE]>>
        ELSE IF lower = "httponly" THEN <<"ok", [ck EXCEPT !.httponly = TRUE]>>
        ELSE LET kv == split(trimmed)
             IN  IF kv = None THEN <<"err">>
                 ELSE LET k == kv[1][1]
                          v == kv[1][2]
                          key == to_ascii_lower(k)
                      IN  CASE key = "max-age" ->
                                   LET n == from_str(v)
                                   IN  IF n = None THEN <<"err">>
                                       ELSE <<"ok", [ck EXCEPT !.max_age = n]>>
                            [] key = "domain" ->
                                   IF v = "" THEN <<"panic">>
                                   ELSE <<"ok", [ck EXCEPT !.domain = Some(DomainOf(v))]>>
                            [] key = "path" -> <<"ok", [ck EXCEPT !.path = Some(v)]>>
                            [] key = "expires" ->
                                   LET tm == ParseExpires(v)
                                   IN  IF tm = None THEN <<"err">>
                                       ELSE <<"ok", [ck EXCEPT !.expires = tm]>>
                            [] OTHER ->
                                   <<"ok", [ck EXCEPT !.custom = Insert(ck.custom, k, v)]>>

(***************************************************************************)
(* Bounds and the texts the callers supply                                 *)
(***************************************************************************)

\* The most attribute segments appended to a wire text.
MaxAttrs == 2

\* The most fields a caller assigns on a constructed cookie.
MaxAssign == 2

Names == {"foo", "a b", "a;b"}

Values == {"bar", "a b"}

FirstSegments == {" foo=b%2Fr ", "=bar", "", "foo=%FF"}

AttrSegments ==
    {" Secure", "HTTPONLY", " Secure=1",
     " Max-Age=4", " max-age=10", " Max-Age=x",
     " Domain=.Example.COM", " domain=",
     " Path=/foo", " PATH=/",
     " Expires=Wed, 01 Jan 2020 10:20:30 GMT",
     " expires=Thu Jan 02 10:20:30 2020",
     " wut=lol", " wut=l%20l", " Wut=lol", " novalue"}

Paths == {None, Some("/foo")}

Domains == {Some("foo.com")}

MaxAges == {Some(4)}

Timestamps ==
    {Some([tm_sec |-> 30, tm_min |-> 20, tm_hour |-> 10, tm_mday |-> 1, tm_mon |-> 0,
           tm_year |-> 120, tm_wday |-> 3])}

CustomKeys == {"wut", "Wut"}

CustomValues == {"lol", "l l"}

(***************************************************************************)
(* The callers' steps                                                      *)
(***************************************************************************)

Init ==
    /\ orig = None /\ nassign = 0 /\ text = "" /\ nattrs = 0 /\ pc = "start"
    /\ pairs = <<>> /\ c = None /\ result = "none" /\ out = None

\* Cookie::new(name, value)
New ==
    /\ pc = "start"
    /\ \E name \in Names, value \in Values : orig' = Some(CookieNew(name, value))
    /\ pc' = "built"
    /\ UNCHANGED <<nassign, text, nattrs, pairs, c, result, out>>

\* The owner of a cookie assigns one of its public fields (lines 20-28), as
\* the tests do at lines 166-180.
Assign ==
    /\ pc = "built" /\ nassign < MaxAssign
    /\ \/ orig' = Some([orig[1] EXCEPT !.httponly = TRUE])
       \/ orig' = Some([orig[1] EXCEPT !.secure = TRUE])
       \/ \E v \in Paths : orig' = Some([orig[1] EXCEPT !.path = v])
       \/ \E v \in Domains : orig' = Some([orig[1] EXCEPT !.domain = v])
       \/ \E v \in MaxAges : orig' = Some([orig[1] EXCEPT !.max_age = v])
       \/ \E v \in Timestamps : orig' = Some([orig[1] EXCEPT !.expires = v])
       \/ \E k \in CustomKeys, v \in CustomValues :
              orig' = Some([orig[1] EXCEPT !.custom = Insert(orig[1].custom, k, v)])
    /\ nassign' = nassign + 1
    /\ UNCHANGED <<text, nattrs, pc, pairs, c, result, out>>

\* cookie.pair().to_string(), as in the test at line 199.
PairShow ==
    /\ pc = "built"
    /\ out' = <<Pair(orig[1])>>
    /\ pc' = "paired"
    /\ UNCHANGED <<orig, nassign, text, nattrs, pairs, c, result>>

\* to_string of the constructed cookie; the text is then handed to parse.
Show ==
    /\ pc = "built"
    /\ out' = Writes(orig[1])
    /\ text' = CookieFmt(orig[1])
    /\ pc' = "ready"
    /\ UNCHANGED <<orig, nassign, nattrs, pairs, c, result>>

\* A header text arrives from the wire: its first segment ...
Wire ==
    /\ pc = "start"
    /\ \E seg \in FirstSegments : text' = seg
    /\ pc' = "wire"
    /\ UNCHANGED <<orig, nassign, nattrs, pairs, c, result, out>>

\* ... and each further segment after a ';'.
AddSegment ==
    /\ pc = "wire" /\ nattrs < MaxAttrs
    /\ \E seg \in AttrSegments : text' = text \o ";" \o seg
    /\ nattrs' = nattrs + 1
    /\ UNCHANGED <<orig, nassign, pc, pairs, c, result, out>>

(***************************************************************************)
(* Cookie::parse, one step per turn of its loop                            *)
(***************************************************************************)

\* Lines 52-59.  split(';') always yields a first segment.
ParseBegin ==
    /\ pc \in {"wire", "ready"}
    /\ LET segs == SplitOn(trim(text), ";")
           first == ParseFirst(Head(segs))
       IN  IF first = None
           THEN /\ result' = "Err" /\ pc' = "done" /\ c' = None /\ pairs' = <<>>
           ELSE /\ c' = first /\ pairs' = Tail(segs) /\ pc' = "attrs"
                /\ UNCHANGED result
    /\ UNCHANGED <<orig, nassign, text, nattrs, out>>

\* Lines 61-97: the next segment of the iterator.
ParseLoop ==
    /\ pc = "attrs" /\ pairs # <<>>
    /\ LET r == ParseAttr(c[1], Head(pairs))
       IN  IF r[1] = "ok"
           THEN /\ c' = Some(r[2]) /\ pairs' = Tail(pairs)
                /\ UNCHANGED <<pc, result>>
           ELSE /\ result' = (IF r[1] = "err" THEN "Err" ELSE "panic")
                /\ pc' = "done" /\ c' = None /\ pairs' = <<>>
    /\ UNCHANGED <<orig, nassign, text, nattrs, out>>

\* Line 99
ParseReturn ==
    /\ pc = "attrs" /\ pairs = <<>>
    /\ result' = "Ok" /\ pc' = "done"
    /\ UNCHANGED <<orig, nassign, text, nattrs, pairs, c, out>>

\* to_string of the parsed cookie, as in the test at line 185.
ShowParsed ==
    /\ pc = "done" /\ result = "Ok"
    /\ out' = Writes(c[1])
    /\ pc' = "shown"
    /\ UNCHANGED <<orig, nassign, text, nattrs, pairs, c, result>>

Next ==
    \/ New \/ Assign \/ PairShow \/ Show \/ Wire \/ AddSegment
    \/ ParseBegin \/ ParseLoop \/ ParseReturn \/ ShowParsed

Spec == Init /\ [][Next]_vars

(***************************************************************************)
(* The segments of the text under parse, as the claims speak of them       *)
(***************************************************************************)

Recognized == {"secure", "httponly", "max-age", "domain", "path", "expires"}

ValuedNames == {"max-age", "domain", "path", "expires"}

\* The segments after the first one.
AttrSegs == Tail(SplitOn(trim(text), ";"))

IsFlag(seg) == to_ascii_lower(trim(seg)) \in {"secure", "httponly"}

\* The attribute segments as the loop reads them: None for a flag or a
\* segment without '=', else the key, its lowercased name and the value.
Attrs ==
    LET segs == AttrSegs
    IN  [i \in 1..Len(segs) |->
            LET kv == split(segs[i])
            IN  IF IsFlag(segs[i]) \/ kv = None THEN None
                ELSE Some([key |-> kv[1][1], name |-> to_ascii_lower(kv[1][1]),
                           val |-> kv[1][2]])]

\* The positions, among the attributes a, of the recognized valued name.
Occurrences(a, name) == {i \in DOMAIN a : a[i] # None /\ a[i][1].name = name}

\* The positions of the custom key k, in its exact casing.
CustomOccurrences(a, k) ==
    {i \in DOMAIN a : a[i] # None /\ a[i][1].key = k /\ a[i][1].name \notin ValuedNames}

Last(S) == CHOOSE i \in S : \A j \in S : j <= i

Returned == pc \in {"done", "shown"} /\ result = "Ok"

\* The cookie a finished to_string has rendered.
Rendered == IF pc = "shown" THEN c[1] ELSE orig[1]

(***************************************************************************)
(* Claims                                                                  *)
(***************************************************************************)

\* C1: parsing the text formatted from any constructed cookie (its expires
\* unset or canonical) succeeds and returns a cookie equal to it in every
\* field.
C1_RoundTrip ==
    (pc = "done" /\ orig # None) => (result = "Ok" /\ c = orig)

\* C2: a cookie built by Cookie::new with a non-empty ASCII name and value and
\* left as built is returned unchanged, with path "/", by parsing its
\* formatted text.
C2_NewRoundTrip ==
    (pc = "done" /\ orig # None /\ nassign = 0)
        => (result = "Ok" /\ c = orig /\ c[1].path = Some("/"))

\* C3 as stated: a text with no Path segment parses to a cookie whose path is
\* unset.
C3_PathUnset ==
    (Returned /\ Occurrences(Attrs, "path") = {}) => c[1].path = None

\* C3 as amended: a text with no Path segment parses to a cookie whose path is
\* "/", the default of Cookie::new, from which parse starts.
C3_PathDefault ==
    (Returned /\ Occurrences(Attrs, "path") = {}) => c[1].path = Some("/")

C3_Witness ==
    Returned /\ orig = None /\ Occurrences(Attrs, "path") = {} /\ Len(AttrSegs) > 0

\* C4: after a successful parse no key of custom equals, case-insensitively,
\* one of the six recognized names.
C4_NoRecognizedKey ==
    Returned => \A k \in DOMAIN c[1].custom : to_ascii_lower(k) \notin Recognized

\* C5: to_string writes the name=value pair, then HttpOnly, Secure, Path,
\* Domain, Max-Age, Expires, each only if set and in this order, then the
\* custom entries by ascending key, every item after the pair opened by "; ".
C5_FixedOrder ==
    pc \in {"ready", "shown"} =>
        LET ck == Rendered
            n(b) == IF b THEN 1 ELSE 0
            h == 1 + n(ck.httponly)
            s == h + n(ck.secure)
            p == s + n(ck.path # None)
            d == p + n(ck.domain # None)
            m == d + n(ck.max_age # None)
            e == m + n(ck.expires # None)
            keys == DOMAIN ck.custom
        IN  /\ Len(out) = e + Cardinality(keys)
            /\ out[1] = ck.name \o "=" \o percent_encode(ck.value)
            /\ ck.httponly => out[h] = "; HttpOnly"
            /\ ck.secure => out[s] = "; Secure"
            /\ ck.path # None => out[p] = "; Path=" \o ck.path[1]
            /\ ck.domain # None => out[d] = "; Domain=" \o ck.domain[1]
            /\ ck.max_age # None => out[m] = "; Max-Age=" \o ToDec(ck.max_age[1])
            /\ ck.expires # None => out[e] = "; Expires=" \o rfc822(ck.expires[1])
            /\ \A k \in keys :
                   out[e + 1 + Cardinality({x \in keys : StrLess(x, k)})]
                       = "; " \o k \o "=" \o percent_encode(ck.custom[k])
            /\ pc = "ready" => text = Concat(out)

C5_Witness ==
    /\ pc = "shown" /\ Len(AttrSegs) = 2
    /\ to_ascii_lower(trim(AttrSegs[1])) = "secure"
    /\ to_ascii_lower(trim(AttrSegs[2])) = "httponly"
    /\ out[2] = "; HttpOnly" /\ out[3] = "; Secure"

\* A segment the claim C6 calls malformed.
BadSegment(seg) ==
    /\ ~IsFlag(seg)
    /\ \/ split(seg) = None
       \/ /\ to_ascii_lower(split(seg)[1][1]) = "max-age"
          /\ from_str(split(seg)[1][2]) = None
       \/ /\ to_ascii_lower(split(seg)[1][1]) = "expires"
          /\ ParseExpires(split(seg)[1][2]) = None

\* C6: parse returns the failure result whenever the first segment has no
\* '=' or a later segment, at any position, is malformed.
C6_StrictFail ==
    (/\ pc = "done"
     /\ \/ split(Head(SplitOn(trim(text), ";"))) = None
        \/ \E i \in 1..Len(AttrSegs) : BadSegment(AttrSegs[i]))
        => result = "Err"

\* C7: parse returns a cookie or the failure result and never panics.
C7_Total == result # "panic"

\* C8: every cookie a successful parse returns has a non-empty name.
C8_NameNonEmpty == Returned => c[1].name # ""

\* C9: the name=value pair written by to_string and by pair().to_string()
\* carries no raw character that the encoding rule escapes.
C9_PairEncoded ==
    pc \in {"paired", "ready"} =>
        \A i \in 1..Len(out[1]) : ~InEncodeSet(Ch(out[1], i))

\* C10: a returned cookie holds, for each valued recognized attribute and each
\* custom key of the text, the value of its last occurrence, and nothing for
\* an attribute or key that does not occur.
C10_LastWins ==
    Returned =>
        LET a == Attrs
            last(name) == a[Last(Occurrences(a, name))][1].val
            keys == {a[i][1].key :
                        i \in {j \in DOMAIN a : a[j] # None /\ a[j][1].name \notin ValuedNames}}
        IN  /\ c[1].max_age = IF Occurrences(a, "max-age") = {} THEN None
                              ELSE from_str(last("max-age"))
            /\ c[1].domain = IF Occurrences(a, "domain") = {} THEN None
                             ELSE Some(DomainOf(last("domain")))
            /\ c[1].path = IF Occurrences(a, "path") = {} THEN Some("/")
                           ELSE Some(last("path"))
            /\ c[1].expires = IF Occurrences(a, "expires") = {} THEN None
                              ELSE ParseExpires(last("expires"))
            /\ DOMAIN c[1].custom = keys
            /\ \A k \in keys : c[1].custom[k] = a[Last(CustomOccurrences(a, k))][1].val

C10_Witness ==
    /\ Returned /\ orig = None /\ Len(AttrSegs) = 2
    /\ LET a == Attrs
       IN  /\ a[1] # None /\ a[2] # None
           /\ a[1][1].val # a[2][1].val
           /\ \/ a[1][1].key = a[2][1].key
              \/ a[1][1].name = a[2][1].name /\ a[1][1].name \in ValuedNames

====
